---- MODULE Spec2Model ----
(***************************************************************************)
(* Attolytics: a web server that stores batches of analytics events in a   *)
(* PostgreSQL database.  The module models                                 *)
(*   - the value conversions of src/src/types.rs (json_to_sql,             *)
(*     header_to_sql, unwrap_if_required, json_to_date_time),              *)
(*   - the request handler events_post of src/src/main.rs, step by step,   *)
(*     for several concurrent requests sharing one connection pool,        *)
(*   - the startup sequence run() of src/src/main.rs.                      *)
(* db.rs and schema.rs are not part of the available sources; what the     *)
(* handler needs of them (insert_event, create_tables, Schema::from_yaml)  *)
(* is modelled from the specification document and marked so.              *)
(***************************************************************************)
EXTENDS Integers, Sequences, FiniteSets, TLC

VARIABLES server, schema, checkedOut, db, req, conv

vars == <<server, schema, checkedOut, db, req, conv>>

(***************************************************************************)
(* Bounds of the model.                                                    *)
(***************************************************************************)
\* Number of concurrent requests: one more than the connections that the pool
\* has for them, so that two handlers are in their transactions together and
\* a third finds the pool exhausted.
NumReq == 3
\* Longest event batch of the request under study (request 1).
MaxEvents == 2
\* Times the process is started against the same database.
MaxRuns == 2
\* Connections of the pool (r2d2's max_size; Pool::new takes r2d2's default).
\* run() keeps one of them while the server serves, the handlers share the
\* others.
PoolSize == 3

(***************************************************************************)
(* Integers wider than TLC's 32 bits: a value is hi * 10^9 + lo with       *)
(* 0 <= lo < 10^9 (floor representation, so negative values have hi < 0).  *)
(***************************************************************************)
Base == 10^9

Big(hi, lo) == [hi |-> hi, lo |-> lo]

BigLE(a, b) == a.hi < b.hi \/ (a.hi = b.hi /\ a.lo <= b.lo)

\* i32::MIN = -2147483648 and i32::MAX = 2147483647.
I32Min == Big(-3, 852516352)

I32Max == Big(2, 147483647)

(***************************************************************************)
(* serde_json::Value.  A number is either an integer (serde's PosInt /     *)
(* NegInt) or a float; a float is floor + q/4 with q in 0..3, which is     *)
(* exact in an f64 for every magnitude used here.  Numbers are limited to  *)
(* |n| < 2^31 * 10^9 - 128, all of which fit an i64 and have their nearest *)
(* f64 below 2^31 * 10^9.                                                  *)
(***************************************************************************)
JNull == [kind |-> "null"]

JBool(b) == [kind |-> "bool", b |-> b]

JInt(hi, lo) == [kind |-> "number", repr |-> "int", hi |-> hi, lo |-> lo, q |-> 0]

JFloat(hi, lo, q) == [kind |-> "number", repr |-> "float", hi |-> hi, lo |-> lo, q |-> q]

JStr(s) == [kind |-> "string", s |-> s]

JArr == [kind |-> "array"]

JObj(fields) == [kind |-> "object", fields |-> fields]

\* Option<T>
None == [some |-> FALSE]

Some(v) == [some |-> TRUE, v |-> v]

\* Result<T, E>
Ok(v) == [ok |-> TRUE, val |-> v]

Err(e) == [ok |-> FALSE, err |-> e]

\* value[key] of serde_json: Null unless value is an object holding key.
Index(json, key) ==
    IF json.kind = "object" /\ key \in DOMAIN json.fields
    THEN json.fields[key]
    ELSE JNull

is_number(json) == json.kind = "number"

is_string(json) == json.kind = "string"

as_bool(json) == IF json.kind = "bool" THEN Some(json.b) ELSE None

as_str(json) == IF json.kind = "string" THEN Some(json.s) ELSE None

\* Some only for a number stored as an integer; a float such as 3.0 is None.
as_i64(json) ==
    IF json.kind = "number" /\ json.repr = "int"
    THEN Some(Big(json.hi, json.lo))
    ELSE None

\* -a
BigNeg(a) == IF a.lo = 0 THEN Big(-a.hi, 0) ELSE Big(-a.hi - 1, Base - a.lo)

\* a + d for |d| < 10^9
BigAddSmall(a, d) ==
    IF a.lo + d >= Base THEN Big(a.hi + 1, a.lo + d - Base)
    ELSE IF a.lo + d < 0 THEN Big(a.hi - 1, a.lo + d + Base)
    ELSE Big(a.hi, a.lo + d)

\* a % m for a >= 0 and 0 < m <= 512
BigMod(a, m) == ((a.hi % m) * (Base % m) + (a.lo % m)) % m

\* 2^e for the exponents at which the spacing of the f64 values doubles.
PowerOfTwo(e) ==
    CASE e = 53 -> Big(9007199, 254740992)
      [] e = 54 -> Big(18014398, 509481984)
      [] e = 55 -> Big(36028797, 18963968)
      [] e = 56 -> Big(72057594, 37927936)
      [] e = 57 -> Big(144115188, 75855872)
      [] e = 58 -> Big(288230376, 151711744)
      [] e = 59 -> Big(576460752, 303423488)
      [] e = 60 -> Big(1152921504, 606846976)

\* The distance between the f64 values around the magnitude m: 1 up to 2^53,
\* 2 up to 2^54, and so on (m < 2^61).
F64Spacing(m) == 2 ^ Cardinality({e \in 53..60 : BigLE(PowerOfTwo(e), m)})

\* The multiple of s nearest to m, given down = m - m % s; a tie goes to the
\* multiple whose mantissa is even.
RoundTiesEven(m, s, r, down) ==
    IF 2 * r < s THEN down
    ELSE IF 2 * r > s \/ BigMod(down, 2 * s) # 0 THEN BigAddSmall(down, s)
    ELSE down

RoundToSpacing(m, s, r) == RoundTiesEven(m, s, r, BigAddSmall(m, -r))

RoundMagnitude(m, s) == RoundToSpacing(m, s, BigMod(m, s))

\* i64 as f64: the nearest f64, ties to the even mantissa.
RoundToF64(n) ==
    IF n.hi < 0
    THEN BigNeg(RoundMagnitude(BigNeg(n), F64Spacing(BigNeg(n))))
    ELSE RoundMagnitude(n, F64Spacing(n))

\* Some for every number: a float as it is, an integer converted to f64.
as_f64(json) ==
    IF json.kind = "number"
    THEN IF json.repr = "int"
         THEN LET f == RoundToF64(Big(json.hi, json.lo))
              IN  Some([hi |-> f.hi, lo |-> f.lo, q |-> 0])
         ELSE Some([hi |-> json.hi, lo |-> json.lo, q |-> json.q])
    ELSE None

(***************************************************************************)
(* Values as bound to a statement (what ToSql sends): NULL, or a value of  *)
(* the physical type.                                                      *)
(***************************************************************************)
SqlNull == [sql |-> "NULL"]

SqlVal(ty, v) == [sql |-> ty, v |-> v]

Types == {"Bool", "I32", "I64", "F32", "F64", "String", "Timestamp"}

postgres_type(type) ==
    CASE type = "Bool" -> "BOOL"
      [] type = "I32" -> "INT4"
      [] type = "I64" -> "INT8"
      [] type = "F32" -> "FLOAT4"
      [] type = "F64" -> "FLOAT8"
      [] type = "String" -> "VARCHAR"
      [] type = "Timestamp" -> "TIMESTAMPTZ"

\* ConversionError
MissingValue(key) == [kind |-> "MissingValue", key |-> key]

TimestampFormat == [kind |-> "TimestampFormat"]

TimestampTooLarge == [kind |-> "TimestampTooLarge"]

\* i32::try_from(i).ok()
TryI32(i) == IF BigLE(I32Min, i) /\ BigLE(i, I32Max) THEN Some(i) ELSE None

\* ToSql of an Option<T>: None is sent as NULL.
SqlOfOption(ty, o) == IF o.some THEN SqlVal(ty, o.v) ELSE SqlNull

(***************************************************************************)
(* `f as f32`: rounding of an f64 to the nearest f32 (24-bit significand,  *)
(* ties to even).  Computed on the value in quarters; defined for          *)
(* magnitudes below 2^28, where the quarters fit TLC's integers.           *)
(***************************************************************************)
Quarters(f) == (f.hi * Base + f.lo) * 4 + f.q

OfQuarters(n) == [hi |-> (n \div 4) \div Base, lo |-> (n \div 4) % Base, q |-> n % 4]

Abs(n) == IF n < 0 THEN -n ELSE n

RoundToF32(n) ==
    LET a == Abs(n)
    IN  IF a < 2^24
        THEN n
        ELSE LET e == CHOOSE k \in 1..6 : 2^(23 + k) <= a /\ a < 2^(24 + k)
                 step == 2^e
                 down == (a \div step) * step
                 rem == a - down
                 r == IF 2 * rem < step THEN down
                      ELSE IF 2 * rem > step THEN down + step
                      ELSE IF (down \div step) % 2 = 0 THEN down
                      ELSE down + step
             IN  IF n < 0 THEN -r ELSE r

as_f32(f) == OfQuarters(RoundToF32(Quarters(f)))

(***************************************************************************)
(* Timestamps.  A DateTime<FixedOffset> is its UTC instant (whole seconds  *)
(* since the epoch as a wide integer, nanoseconds) and its offset in       *)
(* seconds east of UTC.                                                    *)
(***************************************************************************)
DateTime(secs, nanos, off) == [secs |-> secs, nanos |-> nanos, off |-> off]

\* The seconds NaiveDateTime can represent: the first second of year -262143
\* (-8334601228800) to the last second of year 262142 (8210266876799).
NaiveMinSecs == Big(-8335, 398771200)

NaiveMaxSecs == Big(8210, 266876799)

\* The second of the minute of a wide number of seconds (10^9 % 60 = 40).
SecondOfMinute(secs) == ((secs.hi % 60) * 40 + secs.lo) % 60

\* NaiveDateTime::from_timestamp_opt(secs, nsecs): nanoseconds of 10^9 and
\* more stand for a leap second, which only second 59 of a minute can hold.
from_timestamp_opt(secs, nsecs) ==
    IF /\ BigLE(NaiveMinSecs, secs) /\ BigLE(secs, NaiveMaxSecs)
       /\ (nsecs < Base \/ (nsecs < 2 * Base /\ SecondOfMinute(secs) = 59))
    THEN Some([secs |-> secs, nanos |-> nsecs])
    ELSE None

\* timestamp.floor() as i64
FloorSecs(f) == Big(f.hi, f.lo)

\* (1e9 * timestamp.fract()) as u32: fract() keeps the sign of the number, and
\* the cast of a negative float to u32 saturates to 0.
FractNanos(f) == IF f.hi >= 0 THEN f.q * 250000000 ELSE 0

\* TLA+ strings are ASCII: the character U+2212 MINUS SIGN is written so.
MinusSign == "<U+2212>"

IsDigit(c) == c \in {"0", "1", "2", "3", "4", "5", "6", "7", "8", "9"}

DigitVal(c) ==
    CASE c = "0" -> 0 [] c = "1" -> 1 [] c = "2" -> 2 [] c = "3" -> 3
      [] c = "4" -> 4 [] c = "5" -> 5 [] c = "6" -> 6 [] c = "7" -> 7
      [] c = "8" -> 8 [] c = "9" -> 9

Num2(cs, i) == 10 * DigitVal(cs[i]) + DigitVal(cs[i + 1])

IsLeapYear(y) == y % 4 = 0 /\ (y % 100 # 0 \/ y % 400 = 0)

DaysInMonth(y, m) ==
    IF m = 2 THEN (IF IsLeapYear(y) THEN 29 ELSE 28)
    ELSE IF m \in {4, 6, 9, 11} THEN 30 ELSE 31

\* Days from 1970-01-01 to the civil date y-m-d.
DaysFromCivil(y, m, d) ==
    LET yy == IF m <= 2 THEN y - 1 ELSE y
        era == yy \div 400
        yoe == yy - era * 400
        mp == IF m > 2 THEN m - 3 ELSE m + 9
        doy == (153 * mp + 2) \div 5 + d - 1
        doe == yoe * 365 + yoe \div 4 - yoe \div 100 + doy
    IN  era * 146097 + doe - 719468

\* days * 86400 + rest as a wide integer (-86400 < rest < 2 * 86400).
EpochSecs(days, rest) ==
    LET p == days * 432
        hi == p \div (5 * 10^6)
        lo == (p % (5 * 10^6)) * 200 + rest
    IN  Big(hi + lo \div Base, lo % Base)

\* The first 9 digits of the fraction cs[from..to], right-padded with zeros.
RECURSIVE FracNanos(_, _, _, _)
FracNanos(cs, from, to, width) ==
    IF width = 0 THEN 0
    ELSE (IF from <= to THEN DigitVal(cs[from]) ELSE 0) * 10^(width - 1)
         + FracNanos(cs, from + 1, to, width - 1)

\* The last index of the run of digits of cs starting at from (from - 1 if none).
RECURSIVE DigitsEnd(_, _)
DigitsEnd(cs, from) ==
    IF from <= Len(cs) /\ IsDigit(cs[from]) THEN DigitsEnd(cs, from + 1) ELSE from - 1

(***************************************************************************)
(* DateTime::parse_from_rfc3339 on the characters cs:                      *)
(* YYYY-MM-DD(T|t| )HH:MM:SS[.fraction](Z|z|(+|-)HH:MM), every field in    *)
(* range, nothing before or after; U+2212 is a minus sign too.             *)
(***************************************************************************)
ParseRfc3339(cs) ==
    LET n == Len(cs)
        shape == /\ n >= 20
                 /\ \A i \in {1, 2, 3, 4, 6, 7, 9, 10, 12, 13, 15, 16, 18, 19} : IsDigit(cs[i])
                 /\ cs[5] = "-" /\ cs[8] = "-" /\ cs[11] \in {"T", "t", " "}
                 /\ cs[14] = ":" /\ cs[17] = ":"
    IN  IF ~shape THEN Err(TimestampFormat)
        ELSE
        LET y == 100 * Num2(cs, 1) + Num2(cs, 3)
            mo == Num2(cs, 6)
            d == Num2(cs, 9)
            h == Num2(cs, 12)
            mi == Num2(cs, 15)
            s == Num2(cs, 18)
            hasFrac == cs[20] = "."
            fracEnd == IF hasFrac THEN DigitsEnd(cs, 21) ELSE 19
            z == fracEnd + 1
            fracOk == ~hasFrac \/ fracEnd >= 21
            utc == z = n /\ cs[z] \in {"Z", "z"}
            numeric == /\ z + 5 = n
                       /\ cs[z] \in {"+", "-", MinusSign}
                       /\ IsDigit(cs[z + 1]) /\ IsDigit(cs[z + 2])
                       /\ cs[z + 3] = ":"
                       /\ IsDigit(cs[z + 4]) /\ IsDigit(cs[z + 5])
                       /\ Num2(cs, z + 1) <= 23 /\ Num2(cs, z + 4) <= 59
            fields == /\ mo \in 1..12
                      /\ d >= 1 /\ d <= DaysInMonth(y, mo)
                      /\ h <= 23 /\ mi <= 59 /\ s <= 60
        IN  IF ~(fracOk /\ z <= n /\ (utc \/ numeric) /\ fields)
            THEN Err(TimestampFormat)
            ELSE
            LET off == IF utc THEN 0
                       ELSE (IF cs[z] \in {"-", MinusSign} THEN -1 ELSE 1)
                            * (3600 * Num2(cs, z + 1) + 60 * Num2(cs, z + 4))
                sec == IF s = 60 THEN 59 ELSE s
                leap == IF s = 60 THEN Base ELSE 0
                nanos == (IF hasFrac THEN FracNanos(cs, 21, fracEnd, 9) ELSE 0) + leap
                rest == 3600 * h + 60 * mi + sec - off
            IN  Ok(DateTime(EpochSecs(DaysFromCivil(y, mo, d), rest), nanos, off))

(***************************************************************************)
(* TLC's strings are atomic; the characters of the strings used as inputs  *)
(* are tabulated here.                                                     *)
(***************************************************************************)
Chars(s) ==
    CASE s = "2023-01-01T00:00:00Z" ->
           <<"2", "0", "2", "3", "-", "0", "1", "-", "0", "1", "T",
             "0", "0", ":", "0", "0", ":", "0", "0", "Z">>
      [] s = "2023-06-15T12:30:45.5+02:00" ->
           <<"2", "0", "2", "3", "-", "0", "6", "-", "1", "5", "T",
             "1", "2", ":", "3", "0", ":", "4", "5", ".", "5",
             "+", "0", "2", ":", "0", "0">>
      [] s = "2023-01-01 00:00:00Z" ->
           <<"2", "0", "2", "3", "-", "0", "1", "-", "0", "1", " ",
             "0", "0", ":", "0", "0", ":", "0", "0", "Z">>
      [] s = "2023-01-01T00:00:00<U+2212>02:00" ->
           <<"2", "0", "2", "3", "-", "0", "1", "-", "0", "1", "T",
             "0", "0", ":", "0", "0", ":", "0", "0", MinusSign,
             "0", "2", ":", "0", "0">>
      [] s = "2023-02-30T00:00:00Z" ->
           <<"2", "0", "2", "3", "-", "0", "2", "-", "3", "0", "T",
             "0", "0", ":", "0", "0", ":", "0", "0", "Z">>
      [] s = "2023-01-01" ->
           <<"2", "0", "2", "3", "-", "0", "1", "-", "0", "1">>
      [] s = "yesterday" ->
           <<"y", "e", "s", "t", "e", "r", "d", "a", "y">>
      [] s = "t1" -> <<"t", "1">>
      [] s = "" -> <<>>

parse_from_rfc3339(s) == ParseRfc3339(Chars(s))

json_to_date_time(json) ==
    IF is_number(json)
    THEN LET timestamp == as_f64(json).v
             naive == from_timestamp_opt(FloorSecs(timestamp), FractNanos(timestamp))
         IN  IF ~naive.some
             THEN Err(TimestampTooLarge)
             ELSE Ok(Some(DateTime(naive.v.secs, naive.v.nanos, 0)))
    ELSE IF is_string(json)
    THEN LET parsed == parse_from_rfc3339(as_str(json).v)
         IN  IF parsed.ok THEN Ok(Some(parsed.val)) ELSE Err(parsed.err)
    ELSE Ok(None)

(***************************************************************************)
(* unwrap_if_required: option is an Option of a bound value.               *)
(***************************************************************************)
\* Mutation: required is ignored.
unwrap_if_requiredIgnoringRequired(key, option, required) ==
    Ok(IF option.some THEN option.v ELSE SqlNull)

unwrap_if_required(key, option, required) ==
    IF required
    THEN (IF option.some THEN Ok(option.v) ELSE Err(MissingValue(key)))
    ELSE Ok(IF option.some THEN option.v ELSE SqlNull)

ToBool(b) == SqlVal("BOOL", [b |-> b])

\* The I32 arm maps to an Option<i32>, itself bound as NULL when None.
ToInt4(i) == SqlOfOption("INT4", TryI32(i))

ToInt8(i) == SqlVal("INT8", i)

ToFloat4(f) == SqlVal("FLOAT4", as_f32(f))

ToFloat8(f) == SqlVal("FLOAT8", f)

ToVarchar(s) == SqlVal("VARCHAR", [s |-> s])

ToTimestamptz(t) == SqlVal("TIMESTAMPTZ", t)

\* The value of a column of the type as bound to the statement.
Bind(type, v) ==
    CASE type = "Bool" -> ToBool(v)
      [] type = "I32" -> ToInt4(v)
      [] type = "I64" -> ToInt8(v)
      [] type = "F32" -> ToFloat4(v)
      [] type = "F64" -> ToFloat8(v)
      [] type = "String" -> ToVarchar(v)
      [] type = "Timestamp" -> ToTimestamptz(v)

\* Option::map with the closure of the type's arm
MapOpt(o, type) == IF o.some THEN Some(Bind(type, o.v)) ELSE None

json_to_sql(type, key, json, required) ==
    CASE type = "Bool" -> unwrap_if_required(key, MapOpt(as_bool(json), type), required)
      [] type = "I32" -> unwrap_if_required(key, MapOpt(as_i64(json), type), required)
      [] type = "I64" -> unwrap_if_required(key, MapOpt(as_i64(json), type), required)
      [] type = "F32" -> unwrap_if_required(key, MapOpt(as_f64(json), type), required)
      [] type = "F64" -> unwrap_if_required(key, MapOpt(as_f64(json), type), required)
      [] type = "String" -> unwrap_if_required(key, MapOpt(as_str(json), type), required)
      [] type = "Timestamp" ->
           LET dt == json_to_date_time(json)
           IN  IF dt.ok
               THEN unwrap_if_required(key, MapOpt(dt.val, type), required)
               ELSE Err(dt.err)

\* value is the header's Option<&str>.
header_to_sql(key, value, required) ==
    unwrap_if_required(key, MapOpt(value, "String"), required)

(***************************************************************************)
(* The schema.  A configuration document declares the apps and the tables; *)
(* Schema::from_yaml builds the Schema from it or rejects it.              *)
(***************************************************************************)
EventColumn(name, type, required) ==
    [name |-> name, type |-> type, required |-> required, header |-> None]

HeaderColumn(name, header, required) ==
    [name |-> name, type |-> "String", required |-> required, header |-> Some(header)]

Catalog ==
    [t1 |-> <<EventColumn("a", "I32", TRUE), HeaderColumn("ref", "Referer", FALSE)>>,
     t2 |-> <<EventColumn("ts", "Timestamp", FALSE)>>,
     t3 |-> <<EventColumn("s", "String", FALSE)>>]

ConfigGood ==
    [apps |-> [app1 |-> [secret_key |-> "right", tables |-> {"t1", "t2"}],
               app2 |-> [secret_key |-> "other", tables |-> {"t3"}]],
     tables |-> Catalog]

\* app2 names a table that the document does not declare.
ConfigDangling ==
    [apps |-> [app1 |-> [secret_key |-> "right", tables |-> {"t1", "t2"}],
               app2 |-> [secret_key |-> "other", tables |-> {"t3", "t9"}]],
     tables |-> Catalog]

Configs == {ConfigGood, ConfigDangling}

\* Schema::from_yaml: every table an app names must be declared, and the
\* column names of a table must differ.
from_yaml(config) ==
    IF /\ \A a \in DOMAIN config.apps : config.apps[a].tables \subseteq DOMAIN config.tables
       /\ \A t \in DOMAIN config.tables :
            \A i, j \in DOMAIN config.tables[t] :
                config.tables[t][i].name = config.tables[t][j].name => i = j
    THEN Ok([apps |-> config.apps, tables |-> config.tables])
    ELSE Err("ConfigError")

\* HashMap::get / HeaderMap::get_one
Get(map, key) == IF key \in DOMAIN map THEN Some(map[key]) ELSE None

(***************************************************************************)
(* db::insert_event: the values of one row, column by column, or the first *)
(* ConversionError.                                                        *)
(***************************************************************************)
ColumnValue(column, event, headers) ==
    IF column.header.some
    THEN header_to_sql(column.name,
                       IF column.header.v \in DOMAIN headers
                       THEN headers[column.header.v] ELSE None,
                       column.required)
    ELSE json_to_sql(column.type, column.name, Index(event, column.name), column.required)

RECURSIVE RowValues(_, _, _, _)
RowValues(columns, k, event, headers) ==
    IF k > Len(columns) THEN Ok(<<>>)
    ELSE LET v == ColumnValue(columns[k], event, headers)
         IN  IF ~v.ok THEN Err(v.err)
             ELSE LET rest == RowValues(columns, k + 1, event, headers)
                  IN  IF rest.ok THEN Ok(<<v.val>> \o rest.val) ELSE rest

\* db::create_tables: CREATE TABLE IF NOT EXISTS for every table of the schema.
CreatedTables(existing, sch) == existing \cup DOMAIN sch.tables

\* The columns of table t as the creation statement declares them: the name and
\* the physical type of every column, the header columns included.
DeclaredColumns(sch, t) ==
    {<<t, sch.tables[t][k].name, postgres_type(sch.tables[t][k].type)>> :
        k \in DOMAIN sch.tables[t]}

\* A table that exists keeps the columns it has.
CreatedColumns(database, sch) ==
    database.columns
        \cup UNION {DeclaredColumns(sch, t) : t \in DOMAIN sch.tables \ database.tables}

\* Mutation: every table of the schema is dropped and created again.
create_tablesRecreating(database, sch) ==
    [tables |-> database.tables \cup DOMAIN sch.tables,
     columns |-> {c \in database.columns : c[1] \notin DOMAIN sch.tables}
                    \cup UNION {DeclaredColumns(sch, t) : t \in DOMAIN sch.tables},
     rows |-> {row \in database.rows : row.table \notin DOMAIN sch.tables}]

\* The database after a successful db::create_tables.
create_tables(database, sch) ==
    [tables |-> CreatedTables(database.tables, sch),
     columns |-> CreatedColumns(database, sch),
     rows |-> database.rows]

(***************************************************************************)
(* Requests.  The body of a request is its secret key and its events; the  *)
(* request also carries the app id of its path and its headers.            *)
(***************************************************************************)
Req == 1..NumReq

EvT1 == JObj([_t |-> JStr("t1"), a |-> JInt(0, 5)])

EvT2 == JObj([_t |-> JStr("t2"), ts |-> JFloat(1, 700000000, 2)])

\* The required column a of t1 is missing.
EvMissingA == JObj([_t |-> JStr("t1")])

\* No _t at all, and a _t that is not a string.
EvNoT == JObj([a |-> JInt(0, 5)])

EvNumT == JObj([_t |-> JInt(0, 1), a |-> JInt(0, 5)])

\* A table of the catalog that app1 is not authorized for.
EvT3 == JObj([_t |-> JStr("t3"), s |-> JStr("t1")])

\* A table that no document declares.
EvT9 == JObj([_t |-> JStr("t9"), s |-> JStr("t1")])

EventKinds == {EvT1, EvT2, EvMissingA, EvNoT, EvNumT, EvT3}

Batches(n) == UNION {[1..k -> EventKinds] : k \in 0..n}

WithReferer == [Referer |-> Some("https://a.example")]

NoReferer == [Referer |-> None]

Request(app_id, secret_key, headers, events) ==
    [app_id |-> app_id, secret_key |-> secret_key, headers |-> headers, events |-> events]

\* Request 1 is the request under study: every batch up to MaxEvents events,
\* sent to a known or an unknown app, with the right or a wrong secret key.
\* The other requests are concurrent traffic of app1, one of them without the
\* Referer header.
Inputs(r) ==
    IF r = 1
    THEN {Request(c[1], c[2], c[3], b) :
            c \in {<<"app1", "right", WithReferer>>, <<"app1", "wrong", WithReferer>>,
                   <<"nope", "right", WithReferer>>},
            b \in Batches(MaxEvents)}
    ELSE {Request("app1", "right", WithReferer, <<EvT2>>),
          Request("app1", "right", NoReferer, <<EvT1, EvMissingA>>)}

NoRequest == Request("", "", NoReferer, <<>>)

IdleReq ==
    [pc |-> "idle", in |-> NoRequest, i |-> 1, outcome |-> "none",
     conns |-> 0, tx |-> "none", pending |-> {},
     acquired |-> 0, txOpened |-> 0]

Row(r, idx, table, vals) == [req |-> r, idx |-> idx, table |-> table, vals |-> vals]

(***************************************************************************)
(* The initial state: the process has started, nothing has run.  The       *)
(* database may already hold the tables of an earlier run.                 *)
(***************************************************************************)
Init ==
    /\ \E c \in Configs, t \in {{}, DOMAIN Catalog} :
         /\ server = [pc |-> "read_schema", config |-> c, conns |-> 0, created |-> FALSE,
                      run |-> 1]
         /\ db = [tables |-> t,
                  columns |-> UNION {DeclaredColumns(ConfigGood, x) : x \in t},
                  rows |-> {}]
    /\ schema = None
    /\ checkedOut = 0
    /\ req = [r \in Req |-> IdleReq]
    /\ conv = [pc |-> "off"]

(***************************************************************************)
(* run(): each step either succeeds and moves on or makes run() return an  *)
(* error, after which main() exits.  Returning drops the connection that   *)
(* run() holds.                                                            *)
(***************************************************************************)
RunFails ==
    /\ server' = [server EXCEPT !.pc = "exited", !.conns = 0]
    /\ checkedOut' = checkedOut - server.conns

RunStep(next) == server' = [server EXCEPT !.pc = next]

ReadSchema ==
    /\ server.pc = "read_schema"
    /\ \/ RunStep("parse_schema") /\ UNCHANGED checkedOut
       \/ RunFails
    /\ UNCHANGED <<schema, db, req, conv>>

ParseSchema ==
    /\ server.pc = "parse_schema"
    /\ LET built == from_yaml(server.config)
       IN  IF built.ok
           THEN /\ schema' = Some(built.val)
                /\ RunStep("new_pool")
                /\ UNCHANGED checkedOut
           ELSE /\ RunFails
                /\ UNCHANGED schema
    /\ UNCHANGED <<db, req, conv>>

NewPool ==
    /\ server.pc = "new_pool"
    /\ \/ RunStep("get_conn") /\ UNCHANGED checkedOut
       \/ RunFails
    /\ UNCHANGED <<schema, db, req, conv>>

RunGetConn ==
    /\ server.pc = "get_conn"
    /\ \/ /\ checkedOut < PoolSize
          /\ server' = [server EXCEPT !.pc = "create_tables", !.conns = 1]
          /\ checkedOut' = checkedOut + 1
       \/ RunFails
    /\ UNCHANGED <<schema, db, req, conv>>

\* Mutation: the error of create_tables is dropped and run() goes on.
CreateTablesIgnoringFailure ==
    /\ server.pc = "create_tables"
    /\ \/ /\ db' = create_tables(db, schema.v)
          /\ server' = [server EXCEPT !.pc = "build_config", !.created = TRUE]
       \/ /\ RunStep("build_config")
          /\ UNCHANGED db
    /\ UNCHANGED <<schema, checkedOut, req, conv>>

CreateTables ==
    /\ server.pc = "create_tables"
    /\ \/ /\ db' = create_tables(db, schema.v)
          /\ server' = [server EXCEPT !.pc = "build_config", !.created = TRUE]
          /\ UNCHANGED checkedOut
       \/ /\ RunFails
          /\ UNCHANGED db
    /\ UNCHANGED <<schema, req, conv>>

BuildConfig ==
    /\ server.pc = "build_config"
    /\ \/ RunStep("launch") /\ UNCHANGED checkedOut
       \/ RunFails
    /\ UNCHANGED <<schema, db, req, conv>>

Launch ==
    /\ server.pc = "launch"
    /\ \/ RunStep("serving") /\ UNCHANGED checkedOut
       \/ RunFails
    /\ UNCHANGED <<schema, db, req, conv>>

(***************************************************************************)
(* events_post.  The handler runs, per request, in these steps:            *)
(*   Receive      app lookup, secret key, pre-validation of every event    *)
(*   GetConn      db_conn_pool.get()                                       *)
(*   BeginTx      conn.transaction()                                       *)
(*   InsertEvent  one iteration of the insertion loop                      *)
(*   Commit       trans.commit(): the database applies the COMMIT          *)
(*   Return       the reply to the COMMIT, the response, the drop of conn  *)
(* A step that fails returns the status at once; returning drops the       *)
(* transaction (an uncommitted transaction is rolled back by its drop) and *)
(* gives the connection back to the pool.  The CORS check of the request's *)
(* origin is taken to have passed.                                         *)
(***************************************************************************)

\* The first loop: the status of the first event that fails, or "ok".
RECURSIVE PreValidateFrom(_, _, _)
PreValidateFrom(app, events, k) ==
    IF k > Len(events) THEN "ok"
    ELSE LET table_name == as_str(Index(events[k], "_t"))
         IN  IF ~table_name.some THEN "BadRequest"
             ELSE IF table_name.v \notin app.tables THEN "NotFound"
             ELSE PreValidateFrom(app, events, k + 1)

\* Mutation: an event whose _t is not a string passes the validation.
PreValidateAuthorizingOnly(app, events) ==
    PreValidateFrom(app, SelectSeq(events, LAMBDA e : as_str(Index(e, "_t")).some), 1)

\* Mutation: only the first event of the batch is validated.
PreValidateFirstOnly(app, events) ==
    IF Len(events) = 0 THEN "ok" ELSE PreValidateFrom(app, <<events[1]>>, 1)

\* Mutation: a single pass, in which the validation stops at the first event
\* whose values do not convert and leaves the batch to the insertion.
PreValidateUntilConversionFailure(app, events) ==
    LET Stops(k) == /\ PreValidateFrom(app, <<events[k]>>, 1) = "ok"
                    /\ ~RowValues(Catalog[events[k].fields["_t"].s], 1, events[k], NoReferer).ok
        stops == {k \in DOMAIN events : Stops(k)}
    IN  IF stops = {} THEN PreValidateFrom(app, events, 1)
        ELSE PreValidateFrom(app, SubSeq(events, 1, (CHOOSE k \in stops : \A j \in stops : k <= j) - 1), 1)

PreValidate(app, events) == PreValidateFrom(app, events, 1)

\* Mutation: the secret key is not compared.
SecretKeyAccepted(input, app) == TRUE

SecretKeyMatches(input, app) == input.secret_key = app.secret_key

\* Mutation: the events are validated before the secret key is compared.
AdmissionValidatingFirst(sch, input) ==
    LET app == Get(sch.apps, input.app_id)
    IN  IF ~app.some THEN "NotFound"
        ELSE IF PreValidate(app.v, input.events) # "ok"
        THEN PreValidate(app.v, input.events)
        ELSE IF ~SecretKeyMatches(input, app.v) THEN "Forbidden"
        ELSE "ok"

\* What the handler decides before it touches the pool: a status, or "ok".
Admission(sch, input) ==
    LET app == Get(sch.apps, input.app_id)
    IN  IF ~app.some THEN "NotFound"
        ELSE IF ~SecretKeyMatches(input, app.v) THEN "Forbidden"
        ELSE PreValidate(app.v, input.events)

\* Mutation: the rows inserted so far stay in the database.
FailCommittingPending(r, status) ==
    /\ req' = [req EXCEPT ![r] = [@ EXCEPT !.pc = "done",
                                           !.outcome = status,
                                           !.conns = 0,
                                           !.tx = IF @ = "open" THEN "rolled_back" ELSE @,
                                           !.pending = {}]]
    /\ checkedOut' = checkedOut - req[r].conns
    /\ db' = [db EXCEPT !.rows = @ \cup req[r].pending]

\* Mutation: the handlers' statements run on one shared transaction, so the
\* rollback of the failing request also discards the rows that the other
\* requests have inserted and not yet committed.
FailRollingBackEveryTransaction(r, status) ==
    /\ req' = [q \in DOMAIN req |->
                 IF q = r
                 THEN [req[q] EXCEPT !.pc = "done",
                                     !.outcome = status,
                                     !.conns = 0,
                                     !.tx = IF @ = "open" THEN "rolled_back" ELSE @,
                                     !.pending = {}]
                 ELSE [req[q] EXCEPT !.pending = {}]]
    /\ checkedOut' = checkedOut - req[r].conns
    /\ UNCHANGED db

\* Mutation: the connection is not given back.
FailKeepingConnection(r, status) ==
    /\ req' = [req EXCEPT ![r] = [@ EXCEPT !.pc = "done",
                                           !.outcome = status,
                                           !.tx = IF @ = "open" THEN "rolled_back" ELSE @,
                                           !.pending = {}]]
    /\ UNCHANGED <<checkedOut, db>>

\* Mutation: the error return leaves the transaction open on the connection
\* that goes back to the pool.
FailLeavingTransactionOpen(r, status) ==
    /\ req' = [req EXCEPT ![r] = [@ EXCEPT !.pc = "done",
                                           !.outcome = status,
                                           !.conns = 0]]
    /\ checkedOut' = checkedOut - req[r].conns
    /\ UNCHANGED db

\* The request r returns the error status: its locals are dropped, so an open
\* transaction is rolled back (its rows are discarded) and the connection goes
\* back to the pool.
Fail(r, status) ==
    /\ req' = [req EXCEPT ![r] = [@ EXCEPT !.pc = "done",
                                           !.outcome = status,
                                           !.conns = 0,
                                           !.tx = IF @ = "open" THEN "rolled_back" ELSE @,
                                           !.pending = {}]]
    /\ checkedOut' = checkedOut - req[r].conns
    /\ UNCHANGED db

Receive(r, input) ==
    /\ server.pc = "serving"
    /\ req[r].pc = "idle"
    /\ LET status == Admission(schema.v, input)
       IN  IF status = "ok"
           THEN req' = [req EXCEPT ![r] = [@ EXCEPT !.pc = "validated", !.in = input]]
           ELSE req' = [req EXCEPT ![r] = [@ EXCEPT !.pc = "done", !.in = input,
                                                    !.outcome = status]]
    /\ UNCHANGED <<server, schema, checkedOut, db, conv>>

GetConn(r) ==
    /\ req[r].pc = "validated"
    /\ \/ /\ checkedOut < PoolSize
          /\ req' = [req EXCEPT ![r] = [@ EXCEPT !.pc = "connected",
                                                 !.conns = @ + 1,
                                                 !.acquired = @ + 1]]
          /\ checkedOut' = checkedOut + 1
          /\ UNCHANGED db
       \/ Fail(r, "InternalServerError")
    /\ UNCHANGED <<server, schema, conv>>

BeginTx(r) ==
    /\ req[r].pc = "connected"
    /\ \/ /\ req' = [req EXCEPT ![r] = [@ EXCEPT !.pc = "inserting",
                                                 !.tx = "open",
                                                 !.txOpened = @ + 1]]
          /\ UNCHANGED <<checkedOut, db>>
       \/ Fail(r, "InternalServerError")
    /\ UNCHANGED <<server, schema, conv>>

\* Mutation: the loop stops before the last event.
LoopDoneBeforeLast(r) == req[r].i >= Len(req[r].in.events)

\* The insertion loop has gone through every event.
LoopDone(r) == req[r].i > Len(req[r].in.events)

\* Mutation: the row is written outside the transaction.
AddRowAutocommit(r, row) ==
    /\ req' = [req EXCEPT ![r] = [@ EXCEPT !.i = @ + 1]]
    /\ db' = [db EXCEPT !.rows = @ \cup {row}]
    /\ UNCHANGED checkedOut

\* The INSERT of insert_event, executed on the transaction: the row is pending
\* until the commit.
AddRow(r, row) ==
    /\ req' = [req EXCEPT ![r] = [@ EXCEPT !.i = @ + 1, !.pending = @ \cup {row}]]
    /\ UNCHANGED <<checkedOut, db>>

\* Mutation: every failure of insert_event is an internal error.
InsertErrorStatusAlwaysInternal(err) == "InternalServerError"

\* The status of a failed insert_event.
InsertErrorStatus(err) ==
    IF err = "ConversionError" THEN "BadRequest" ELSE "InternalServerError"

\* Mutation: an event whose table is not in the catalog is skipped.
InsertEventSkippingUnknownTable(r) ==
    /\ req[r].pc = "inserting"
    /\ ~LoopDone(r)
    /\ LET event == req[r].in.events[req[r].i]
           table_name == as_str(Index(event, "_t"))
           table == Get(schema.v.tables, table_name.v)
       IN  IF ~table.some
           THEN /\ req' = [req EXCEPT ![r] = [@ EXCEPT !.i = @ + 1]]
                /\ UNCHANGED <<checkedOut, db>>
           ELSE
           LET row == RowValues(table.v, 1, event, req[r].in.headers)
           IN  IF ~row.ok
               THEN Fail(r, InsertErrorStatus("ConversionError"))
               ELSE \/ /\ table_name.v \in db.tables
                       /\ AddRow(r, Row(r, req[r].i, table_name.v, row.val))
                    \/ Fail(r, InsertErrorStatus("DatabaseError"))
    /\ UNCHANGED <<server, schema, conv>>

InsertEvent(r) ==
    /\ req[r].pc = "inserting"
    /\ ~LoopDone(r)
    /\ LET event == req[r].in.events[req[r].i]
           table_name == as_str(Index(event, "_t"))
       IN  IF ~table_name.some
           THEN Fail(r, "panic")
           ELSE
           LET table == Get(schema.v.tables, table_name.v)
           IN  IF ~table.some
               THEN Fail(r, "InternalServerError")
               ELSE
               LET row == RowValues(table.v, 1, event, req[r].in.headers)
               IN  IF ~row.ok
                   THEN Fail(r, InsertErrorStatus("ConversionError"))
                   ELSE \/ /\ table_name.v \in db.tables
                           /\ AddRow(r, Row(r, req[r].i, table_name.v, row.val))
                        \/ Fail(r, InsertErrorStatus("DatabaseError"))
    /\ UNCHANGED <<server, schema, conv>>

\* Mutation: the commit publishes the rows of the transaction in place of the
\* rows that other transactions have committed.
CommitOverwriting(r) ==
    /\ req[r].pc = "inserting"
    /\ LoopDone(r)
    /\ \/ /\ db' = [db EXCEPT !.rows = req[r].pending]
          /\ req' = [req EXCEPT ![r] = [@ EXCEPT !.pc = "committed",
                                                 !.tx = "committed",
                                                 !.pending = {}]]
          /\ UNCHANGED checkedOut
       \/ Fail(r, "InternalServerError")
    /\ UNCHANGED <<server, schema, conv>>

\* trans.commit() after the loop: the database applies the COMMIT, and from
\* then on the rows are visible to every other transaction while the handler
\* still waits for the reply and holds the connection; or the commit fails
\* without having been applied.
Commit(r) ==
    /\ req[r].pc = "inserting"
    /\ LoopDone(r)
    /\ \/ /\ db' = [db EXCEPT !.rows = @ \cup req[r].pending]
          /\ req' = [req EXCEPT ![r] = [@ EXCEPT !.pc = "committed",
                                                 !.tx = "committed",
                                                 !.pending = {}]]
          /\ UNCHANGED checkedOut
       \/ Fail(r, "InternalServerError")
    /\ UNCHANGED <<server, schema, conv>>

\* The reply to the COMMIT: commit() returns Ok and the handler answers Ok, or
\* the reply is lost with the connection and commit() returns an error, which
\* the handler answers with InternalServerError.  The end of the closure drops
\* conn either way.
Return(r) ==
    /\ req[r].pc = "committed"
    /\ \/ /\ req' = [req EXCEPT ![r] = [@ EXCEPT !.pc = "done",
                                                 !.outcome = "Ok",
                                                 !.conns = 0]]
          /\ checkedOut' = checkedOut - req[r].conns
          /\ UNCHANGED db
       \/ Fail(r, "InternalServerError")
    /\ UNCHANGED <<server, schema, conv>>

Next ==
    \/ ReadSchema
    \/ ParseSchema
    \/ NewPool
    \/ RunGetConn
    \/ CreateTables
    \/ BuildConfig
    \/ Launch
    \/ \E r \in Req :
         \/ \E input \in Inputs(r) : Receive(r, input)
         \/ GetConn(r)
         \/ BeginTx(r)
         \/ InsertEvent(r)
         \/ Commit(r)
         \/ Return(r)

Spec == Init /\ [][Next]_vars

(***************************************************************************)
(* The handlers on their own, against a server that run() has brought up:   *)
(* the state in which Launch leaves a first run on an empty database.  The  *)
(* requests are authenticated and pass the validation, so each of them goes *)
(* to the pool.                                                             *)
(***************************************************************************)
PoolInputs ==
    {Request("app1", "right", WithReferer, <<EvT2>>),
     Request("app1", "right", NoReferer, <<EvT1, EvMissingA>>)}

PoolInit ==
    /\ server = [pc |-> "serving", config |-> ConfigGood, conns |-> 1,
                 created |-> TRUE, run |-> 1]
    /\ schema = Some(from_yaml(ConfigGood).val)
    /\ db = create_tables([tables |-> {}, columns |-> {}, rows |-> {}],
                          from_yaml(ConfigGood).val)
    /\ checkedOut = 1
    /\ req = [r \in Req |-> IdleReq]
    /\ conv = [pc |-> "off"]

PoolNext ==
    \E r \in Req :
        \/ \E input \in PoolInputs : Receive(r, input)
        \/ GetConn(r)
        \/ BeginTx(r)
        \/ InsertEvent(r)
        \/ Commit(r)
        \/ Return(r)

\* Every request is handled by a worker thread that the scheduler keeps running:
\* while a handler has a step to take, a step of some handler is eventually
\* taken.  get() of the pool returns within its timeout, with a connection or
\* with an error.
PoolSpec ==
    /\ PoolInit
    /\ [][PoolNext]_vars
    /\ WF_vars(\E r \in Req : \/ GetConn(r) \/ BeginTx(r) \/ InsertEvent(r)
                               \/ Commit(r) \/ Return(r))

(***************************************************************************)
(* The handlers against a schema whose apps may name a table that the       *)
(* catalog lacks: schema.rs is not among the sources, and this is what      *)
(* run() would serve if Schema::from_yaml handed the document over without  *)
(* resolving the table names, the case for which events_post looks every    *)
(* table up again.  The requests are those of app2.                         *)
(***************************************************************************)
CatalogInputs ==
    {Request("app2", "other", NoReferer, b) :
        b \in {<<EvT3>>, <<EvT9>>, <<EvT3, EvT9>>, <<EvT3, EvT3>>}}

CatalogInit ==
    /\ \E c \in Configs :
         /\ server = [pc |-> "serving", config |-> c, conns |-> 1,
                      created |-> TRUE, run |-> 1]
         /\ schema = Some([apps |-> c.apps, tables |-> c.tables])
         /\ db = create_tables([tables |-> {}, columns |-> {}, rows |-> {}],
                               [apps |-> c.apps, tables |-> c.tables])
    /\ checkedOut = 1
    /\ req = [r \in Req |-> IdleReq]
    /\ conv = [pc |-> "off"]

CatalogNext ==
    \E r \in Req :
        \/ \E input \in CatalogInputs : Receive(r, input)
        \/ GetConn(r)
        \/ BeginTx(r)
        \/ InsertEvent(r)
        \/ Commit(r)
        \/ Return(r)

CatalogSpec == CatalogInit /\ [][CatalogNext]_vars

(***************************************************************************)
(* The conversions on their own: a second specification draws one input of *)
(* json_to_sql or header_to_sql and applies the function to it.            *)
(***************************************************************************)
\* 5, -5, the bounds of an i32 and their neighbours, 5000000000, epoch seconds,
\* the bounds of the representable instants and their neighbours, 10^15,
\* 2^53 + 1 and -(2^53 + 1), which no f64 holds.
JsonIntegers ==
    {JInt(0, 5), JInt(-1, 999999995),
     JInt(2, 147483647), JInt(2, 147483648), JInt(-3, 852516352), JInt(-3, 852516351),
     JInt(5, 0), JInt(1, 700000000),
     JInt(8210, 266876799), JInt(8210, 266876800),
     JInt(-8335, 398771200), JInt(-8335, 398771199), JInt(1000000, 0),
     JInt(9007199, 254740993), JInt(-9007200, 745259007)}

\* 3.0, 0.25, -1.5, 16777217.0, 1700000000.5, 1e15 + 0.5
JsonFloats ==
    {JFloat(0, 3, 0), JFloat(0, 0, 1), JFloat(-1, 999999998, 2), JFloat(0, 16777217, 0),
     JFloat(1, 700000000, 2), JFloat(1000000, 0, 2)}

JsonStrings ==
    {JStr("2023-01-01T00:00:00Z"), JStr("2023-06-15T12:30:45.5+02:00"),
     JStr("2023-01-01 00:00:00Z"), JStr("2023-01-01T00:00:00<U+2212>02:00"),
     JStr("2023-02-30T00:00:00Z"), JStr("2023-01-01"), JStr("yesterday"), JStr("")}

JsonOthers == {JNull, JBool(TRUE), JBool(FALSE), JArr, JObj([a |-> JInt(0, 5)])}

JsonValues == JsonIntegers \cup JsonFloats \cup JsonStrings \cup JsonOthers

\* as_f32 is computed for magnitudes below 2^28 only.
JsonValuesFor(type) ==
    IF type = "F32"
    THEN {j \in JsonValues : j.kind = "number" => j.hi \in {-1, 0}}
    ELSE JsonValues

HeaderValues == {None, Some("t1"), Some("")}

Keys == {"a", "ts"}

Unset == Err([kind |-> "unset"])

ConvInit ==
    /\ server = [pc |-> "exited", config |-> ConfigGood, conns |-> 0, created |-> FALSE,
                 run |-> 1]
    /\ db = [tables |-> {}, columns |-> {}, rows |-> {}]
    /\ schema = None
    /\ checkedOut = 0
    /\ req = [r \in Req |-> IdleReq]
    /\ \/ \E type \in Types, key \in Keys, required \in BOOLEAN :
            \E json \in JsonValuesFor(type) :
                conv = [pc |-> "json", type |-> type, key |-> key, json |-> json,
                        header |-> None, required |-> required, out |-> Unset]
       \/ \E key \in Keys, required \in BOOLEAN, value \in HeaderValues :
            conv = [pc |-> "header", type |-> "String", key |-> key, json |-> JNull,
                    header |-> value, required |-> required, out |-> Unset]

ConvertJson ==
    /\ conv.pc = "json"
    /\ conv' = [conv EXCEPT !.pc = "json_done",
                            !.out = json_to_sql(conv.type, conv.key, conv.json, conv.required)]
    /\ UNCHANGED <<server, schema, checkedOut, db, req>>

ConvertHeader ==
    /\ conv.pc = "header"
    /\ conv' = [conv EXCEPT !.pc = "header_done",
                            !.out = header_to_sql(conv.key, conv.header, conv.required)]
    /\ UNCHANGED <<server, schema, checkedOut, db, req>>

ConvNext == ConvertJson \/ ConvertHeader

ConvSpec == ConvInit /\ [][ConvNext]_vars

(***************************************************************************)
(* Materialization on its own: a third specification starts the process    *)
(* against a database that an earlier run may have left, with or without   *)
(* tables and rows, runs run() up to create_tables, and starts the process *)
(* again.                                                                  *)
(***************************************************************************)
OldRows ==
    {Row(0, 1, "t1", <<SqlVal("INT4", Big(0, 5)), SqlNull>>),
     Row(0, 2, "t2", <<SqlNull>>)}

MatDatabases ==
    {[tables |-> t,
      columns |-> UNION {DeclaredColumns(ConfigGood, x) : x \in t},
      rows |-> rows] :
        t \in SUBSET DOMAIN Catalog,
        rows \in SUBSET OldRows}

MatInit ==
    /\ server = [pc |-> "read_schema", config |-> ConfigGood, conns |-> 0,
                 created |-> FALSE, run |-> 1]
    /\ db \in {d \in MatDatabases : \A row \in d.rows : row.table \in d.tables}
    /\ schema = None
    /\ checkedOut = 0
    /\ req = [r \in Req |-> IdleReq]
    /\ conv = [pc |-> "off"]

\* The process has ended, or is stopped after create_tables, and is started
\* again with the same configuration against the same database.
Restart ==
    /\ server.pc \in {"build_config", "exited"}
    /\ server.run < MaxRuns
    /\ server' = [server EXCEPT !.pc = "read_schema", !.conns = 0, !.created = FALSE,
                                !.run = @ + 1]
    /\ schema' = None
    /\ checkedOut' = 0
    /\ UNCHANGED <<db, req, conv>>

MatNext ==
    \/ ReadSchema
    \/ ParseSchema
    \/ NewPool
    \/ RunGetConn
    \/ CreateTables
    \/ Restart

MatSpec == MatInit /\ [][MatNext]_vars

(***************************************************************************)
(* Properties.                                                             *)
(***************************************************************************)
\* The rows of request r that the database holds (committed rows).
RowsOf(r) == {row \in db.rows : row.req = r}

Arrived(r) == req[r].pc # "idle"

Done(r) == req[r].pc = "done"

\* The app of the request exists and the request carries its secret key.
KnownApp(r) == req[r].in.app_id \in DOMAIN ConfigGood.apps

RightKey(r) ==
    KnownApp(r) /\ req[r].in.secret_key = ConfigGood.apps[req[r].in.app_id].secret_key

\* Event e carries a string _t that names a table the app of r is authorized for.
Authorized(r, e) ==
    /\ e.kind = "object"
    /\ "_t" \in DOMAIN e.fields
    /\ e.fields["_t"].kind = "string"
    /\ e.fields["_t"].s \in ConfigGood.apps[req[r].in.app_id].tables

AllAuthorized(r) ==
    \A k \in DOMAIN req[r].in.events : Authorized(r, req[r].in.events[k])

\* Every column of the table of the authorized event e converts.
Converts(r, e) ==
    RowValues(Catalog[e.fields["_t"].s], 1, e, req[r].in.headers).ok

AllConvert(r) ==
    \A k \in DOMAIN req[r].in.events : Converts(r, req[r].in.events[k])

\* C1: a batch of an authenticated request whose events all pass the
\* pre-validation but one of which fails value conversion never has a row in
\* the database, and the request does not end in success.
C1_ConversionFailureRollsBack ==
    \A r \in Req :
        (Arrived(r) /\ RightKey(r) /\ AllAuthorized(r) /\ ~AllConvert(r))
            => /\ RowsOf(r) = {}
               /\ req[r].tx # "committed"
               /\ req[r].outcome # "Ok"

\* Request 1 sent a valid event followed by one that fails conversion, inserted
\* the first one, and was answered BadRequest with its transaction rolled back.
C1_Witness ==
    /\ Done(1)
    /\ req[1].in.events = <<EvT1, EvMissingA>>
    /\ req[1].i = 2
    /\ req[1].outcome = "BadRequest"
    /\ req[1].tx = "rolled_back"

\* The <<position, table>> pairs a fully stored batch has.
ExpectedPlaces(r) ==
    {<<k, req[r].in.events[k].fields["_t"].s>> : k \in DOMAIN req[r].in.events}

\* C2: an authenticated request whose N events are all authorized and all
\* convert ends, unless a database error answers it InternalServerError, in
\* success with exactly N rows committed, the k-th in the table that the k-th
\* event names.
C2_ValidBatchStoresEveryEvent ==
    \A r \in Req :
        (Done(r) /\ RightKey(r) /\ AllAuthorized(r) /\ AllConvert(r)
                 /\ req[r].outcome # "InternalServerError")
            => /\ req[r].outcome = "Ok"
               /\ Cardinality(RowsOf(r)) = Len(req[r].in.events)
               /\ {<<row.idx, row.table>> : row \in RowsOf(r)} = ExpectedPlaces(r)

\* Request 1 stored a batch of two events in two tables.
C2_Witness ==
    /\ Done(1)
    /\ req[1].in.events = <<EvT1, EvT2>>
    /\ req[1].outcome = "Ok"
    /\ Cardinality(RowsOf(1)) = 2

\* C3: an authenticated request with an event whose _t is missing, is not a
\* string or names a table the app is not authorized for is rejected at once
\* with BadRequest or NotFound: it never acquires a connection, never opens a
\* transaction and never has a row, pending or committed.
C3_PreValidationRejectsWholeBatch ==
    \A r \in Req :
        (Arrived(r) /\ RightKey(r) /\ ~AllAuthorized(r))
            => /\ Done(r)
               /\ req[r].outcome \in {"BadRequest", "NotFound"}
               /\ req[r].acquired = 0
               /\ req[r].txOpened = 0
               /\ req[r].pending = {}
               /\ RowsOf(r) = {}

\* Request 1 was rejected for its second event, the first one being valid.
C3_Witness ==
    /\ Done(1)
    /\ req[1].in.secret_key = "right"
    /\ req[1].in.events = <<EvT1, EvT3>>
    /\ req[1].outcome = "NotFound"

\* C4: a request to a known app with another secret key than the app's is
\* answered Forbidden at once: it never acquires a connection, never opens a
\* transaction and never has a row, whatever its events.
C4_WrongSecretNeverTouchesDatabase ==
    \A r \in Req :
        (Arrived(r) /\ KnownApp(r) /\ ~RightKey(r))
            => /\ Done(r)
               /\ req[r].outcome = "Forbidden"
               /\ req[r].acquired = 0
               /\ req[r].txOpened = 0
               /\ req[r].tx = "none"
               /\ req[r].pending = {}
               /\ RowsOf(r) = {}

\* Request 1 sent a batch of valid events with the wrong key.
C4_Witness ==
    /\ Done(1)
    /\ req[1].in.secret_key = "wrong"
    /\ req[1].in.events = <<EvT1, EvT2>>
    /\ req[1].outcome = "Forbidden"

\* C5: a request opens at most one transaction; when it has returned, the
\* transaction is committed or rolled back; the commit comes after the
\* insertion of the last event, a committed transaction holds every event of
\* the batch and any other state of the request none, so the database never
\* holds a strict non-empty part of a batch.
C5_OneTransactionAllOrNothing ==
    \A r \in Req :
        /\ req[r].txOpened <= 1
        /\ req[r].tx = "open" => req[r].pc = "inserting"
        /\ (Done(r) /\ req[r].txOpened = 1) => req[r].tx \in {"committed", "rolled_back"}
        /\ req[r].tx = "committed"
             => /\ req[r].i = Len(req[r].in.events) + 1
                /\ Cardinality(RowsOf(r)) = Len(req[r].in.events)
        /\ req[r].tx # "committed" => RowsOf(r) = {}

\* Two requests have returned, one with its transaction committed and one with
\* its transaction rolled back after an insert.
C5_Witness ==
    /\ Done(1) /\ Done(2)
    /\ req[1].tx = "committed" /\ Len(req[1].in.events) = 2
    /\ req[2].tx = "rolled_back" /\ req[2].i = 2

\* The value is absent for the type: its JSON shape is not the type's.
ShapeMatches(type, json) ==
    CASE type = "Bool" -> json.kind = "bool"
      [] type \in {"I32", "I64"} -> json.kind = "number" /\ json.repr = "int"
      [] type \in {"F32", "F64"} -> json.kind = "number"
      [] type = "String" -> json.kind = "string"
      [] type = "Timestamp" -> json.kind \in {"number", "string"}

\* What an absent value gives: MissingValue(key) if required, else NULL.
AbsentResult(key, required) == IF required THEN Err(MissingValue(key)) ELSE Ok(SqlNull)

\* C6: for every type, json_to_sql of a JSON value whose shape is not the
\* type's (Null stands for a missing key), and header_to_sql of a missing
\* header, give MissingValue(key) when required and NULL when not.
C6_AbsentValue ==
    /\ (conv.pc = "json_done" /\ ~ShapeMatches(conv.type, conv.json))
          => conv.out = AbsentResult(conv.key, conv.required)
    /\ (conv.pc = "header_done" /\ ~conv.header.some)
          => conv.out = AbsentResult(conv.key, conv.required)

\* A required I64 column was given a string.
C6_Witness ==
    /\ conv.pc = "json_done"
    /\ conv.type = "I64" /\ conv.json = JStr("yesterday") /\ conv.required
    /\ conv.out = Err(MissingValue(conv.key))

\* An integer that does not fit an i32.
OverflowsI32(json) ==
    /\ json.kind = "number" /\ json.repr = "int"
    /\ ~(BigLE(I32Min, Big(json.hi, json.lo)) /\ BigLE(Big(json.hi, json.lo), I32Max))

\* C7: json_to_sql to I32 of an integer that does not fit 32 bits gives what an
\* absent value gives: MissingValue(key) when required, NULL when not.
C7_I32OverflowIsAbsent ==
    (conv.pc = "json_done" /\ conv.type = "I32" /\ OverflowsI32(conv.json))
        => conv.out = AbsentResult(conv.key, conv.required)

\* The strings of the inputs that are RFC 3339 timestamps: date-time of RFC
\* 3339 section 5.6, whose offset is "Z" or has the sign "+" or "-", and whose
\* date and time section 5.6 lets an application separate by a space instead
\* of "T".  The string with U+2212 for the sign of the offset is not one.
Rfc3339Strings ==
    {"2023-01-01T00:00:00Z", "2023-06-15T12:30:45.5+02:00", "2023-01-01 00:00:00Z"}

\* A number whose whole seconds are outside the instants NaiveDateTime holds.
OutOfRange(json) ==
    ~(BigLE(NaiveMinSecs, Big(json.hi, json.lo)) /\ BigLE(Big(json.hi, json.lo), NaiveMaxSecs))

\* C8: json_to_sql to Timestamp gives TimestampFormat for a string that is not
\* RFC 3339 and TimestampTooLarge for a number out of range, required or not;
\* for an object, an array, null or a boolean it gives what an absent value
\* gives.
C8_TimestampClassification ==
    (conv.pc = "json_done" /\ conv.type = "Timestamp")
        => /\ (conv.json.kind = "string" /\ conv.json.s \notin Rfc3339Strings)
                => conv.out = Err(TimestampFormat)
           /\ (conv.json.kind = "number" /\ OutOfRange(conv.json))
                => conv.out = Err(TimestampTooLarge)
           /\ conv.json.kind \in {"object", "array", "null", "bool"}
                => conv.out = AbsentResult(conv.key, conv.required)

RECURSIVE SumConns(_)
SumConns(rs) ==
    IF rs = {} THEN 0
    ELSE LET r == CHOOSE x \in rs : TRUE
         IN  req[r].conns + SumConns(rs \ {r})

\* C9: a request holds at most one connection, exactly while it is between a
\* successful pool.get() and its return, and its transaction is open only
\* then; the connections checked out are those that run() and the requests
\* hold and never exceed the pool's size; a request that has returned holds
\* none, whatever its outcome.
C9_ConnectionsBoundedAndReleased ==
    /\ checkedOut <= PoolSize
    /\ checkedOut = server.conns + SumConns(Req)
    /\ \A r \in Req :
        /\ req[r].conns <= 1
        /\ req[r].acquired <= 1
        /\ req[r].conns = 1 <=> req[r].pc \in {"connected", "inserting", "committed"}
        /\ req[r].tx = "open" => req[r].conns = 1
        /\ Done(r) => req[r].conns = 0

\* The pool is exhausted by run() and two requests in their transactions,
\* one of them on the connection that a request has given back when it
\* returned BadRequest: that request had taken its connection while the
\* other two held theirs, or there was none left for it.
C9_Witness ==
    \E r1, r2, r3 \in Req :
        /\ r1 # r2 /\ r1 # r3 /\ r2 # r3
        /\ Done(r1) /\ req[r1].acquired = 1 /\ req[r1].outcome = "BadRequest"
        /\ req[r2].pc = "inserting" /\ req[r2].conns = 1
        /\ req[r3].pc = "inserting" /\ req[r3].conns = 1
        /\ checkedOut = PoolSize

\* C10: a request is handled only while the server is serving, and the server
\* launches only with the schema built and create_tables succeeded; when
\* run() has returned an error no request has been handled.
C10_ServesOnlyAfterMaterialization ==
    /\ (\E r \in Req : Arrived(r)) => server.pc = "serving"
    /\ server.pc \in {"build_config", "launch", "serving"}
         => /\ schema.some
            /\ server.created
            /\ DOMAIN schema.v.tables \subseteq db.tables
    /\ server.pc = "exited" => \A r \in Req : ~Arrived(r)

\* A request has been answered by the serving server.
C10_Witness ==
    /\ server.pc = "serving" /\ server.created
    /\ Done(1) /\ req[1].outcome = "Ok"

\* The database holds every table of the schema with the declared columns.
Materialized(database, sch) ==
    /\ DOMAIN sch.tables \subseteq database.tables
    /\ \A t \in DOMAIN sch.tables : DeclaredColumns(sch, t) \subseteq database.columns

\* C11: a create_tables step on a database that is already materialized from
\* the schema leaves the tables, their columns and their rows as they are,
\* and a step that succeeds on any database leaves it materialized with its
\* rows kept.
C11_MaterializeIdempotent ==
    [][(server.pc = "create_tables" /\ server'.pc # "create_tables")
          => /\ Materialized(db, schema.v) => db' = db
             /\ server'.created => (Materialized(db', schema.v) /\ db'.rows = db.rows)]_vars

\* The second run's create_tables has succeeded on a database that the first
\* run materialized and that holds rows.
C11_Witness ==
    /\ server.run = 2
    /\ server.pc = "build_config" /\ server.created
    /\ db.rows = OldRows
    /\ Materialized(db, schema.v)

\* The request r returns an error in this step, after its pre-validation.
ReturnsError(r) ==
    /\ req[r].pc \in {"validated", "connected", "inserting", "committed"}
    /\ req'[r].pc = "done"
    /\ req'[r].outcome # "Ok"

\* The status that the cause of the error gives: InternalServerError when
\* pool.get() or conn.transaction() failed, BadRequest when the event being
\* inserted does not convert, InternalServerError for any other failure of
\* the insert and for a failed commit.
StatusByCause(r) ==
    IF /\ req[r].pc = "inserting"
       /\ req[r].i <= Len(req[r].in.events)
       /\ ~Converts(r, req[r].in.events[req[r].i])
    THEN "BadRequest"
    ELSE "InternalServerError"

\* C12 as stated: the step in which a request returns an error after its
\* pre-validation decides the status by its cause, and after the step the
\* database holds no row of the batch, a failed commit included.
C12_FailurePersistsNothing ==
    [][\A r \in Req :
         ReturnsError(r)
           => /\ req'[r].outcome = StatusByCause(r)
              /\ {row \in db'.rows : row.req = r} = {}]_vars

\* C12, amended: the step in which a request returns an error after its
\* pre-validation decides the status by its cause; after the step the
\* database holds no row of the batch, unless the error is that of a commit
\* which the database had applied before the error reached the handler: then
\* it holds the row of every event of the batch.
C12_FailureStatusByCause ==
    [][\A r \in Req :
         ReturnsError(r)
           => /\ req'[r].outcome = StatusByCause(r)
              /\ req[r].pc # "committed" => {row \in db'.rows : row.req = r} = {}
              /\ req[r].pc = "committed"
                   => /\ req[r].i > Len(req[r].in.events)
                      /\ {<<row.idx, row.table>> : row \in {x \in db'.rows : x.req = r}}
                           = ExpectedPlaces(r)]_vars

\* Request 1 was answered BadRequest for its second event, which does not
\* convert, and has no row; request 2 was answered InternalServerError for a
\* commit that the database had applied, and its row is in the database.
C12_Witness ==
    /\ Done(1) /\ req[1].in.events = <<EvT1, EvMissingA>>
    /\ req[1].i = 2 /\ req[1].outcome = "BadRequest"
    /\ RowsOf(1) = {}
    /\ Done(2) /\ req[2].in.events = <<EvT2>>
    /\ req[2].tx = "committed"
    /\ req[2].outcome = "InternalServerError"
    /\ Cardinality(RowsOf(2)) = 1

\* The position of the first event of r that is not authorized.
FirstRejected(r) ==
    CHOOSE k \in DOMAIN req[r].in.events :
        /\ ~Authorized(r, req[r].in.events[k])
        /\ \A j \in 1..(k - 1) : Authorized(r, req[r].in.events[j])

\* Event e carries a _t that is a string.
HasTableName(e) ==
    e.kind = "object" /\ "_t" \in DOMAIN e.fields /\ e.fields["_t"].kind = "string"

\* C13: the first failing check decides the outcome, in the order unknown app
\* (NotFound), secret key (Forbidden), events in batch order (BadRequest for
\* a _t that is missing or not a string, NotFound for a table the app is not
\* authorized for).
C13_FirstFailingCheckDecides ==
    \A r \in Req :
        Arrived(r) =>
            /\ ~KnownApp(r) => (Done(r) /\ req[r].outcome = "NotFound")
            /\ (KnownApp(r) /\ ~RightKey(r)) => (Done(r) /\ req[r].outcome = "Forbidden")
            /\ (RightKey(r) /\ ~AllAuthorized(r))
                 => /\ Done(r)
                    /\ req[r].outcome =
                         IF HasTableName(req[r].in.events[FirstRejected(r)])
                         THEN "NotFound"
                         ELSE "BadRequest"

\* Request 1, whose first event names a table it is not authorized for and
\* whose second event has no _t, was answered NotFound.
C13_Witness ==
    /\ Done(1)
    /\ req[1].in.secret_key = "right"
    /\ req[1].in.events = <<EvT3, EvNoT>>
    /\ req[1].outcome = "NotFound"

\* C14: every event is authorized before any event is converted. When the
\* first event j that fails the validation comes after an event i that would
\* fail the conversion, the request ends with the validation error of event j
\* and has never taken a connection or opened a transaction, which is where
\* alone the columns of an event are converted; it has no row.
C14_AuthorizationPrecedesConversion ==
    \A r \in Req :
        (Arrived(r) /\ RightKey(r) /\ ~AllAuthorized(r))
          => LET j == FirstRejected(r)
             IN  (\E i \in 1..(j - 1) : ~Converts(r, req[r].in.events[i]))
                   => /\ Done(r)
                      /\ req[r].outcome =
                           IF HasTableName(req[r].in.events[j]) THEN "NotFound" ELSE "BadRequest"
                      /\ req[r].acquired = 0
                      /\ req[r].txOpened = 0
                      /\ req[r].i = 1
                      /\ req[r].pending = {}
                      /\ RowsOf(r) = {}

\* Request 1, whose first event lacks a required value and whose second
\* event names a table of another app, was answered NotFound without a
\* transaction.
C14_Witness ==
    /\ Done(1)
    /\ req[1].in.secret_key = "right"
    /\ req[1].in.events = <<EvMissingA, EvT3>>
    /\ req[1].outcome = "NotFound"
    /\ req[1].txOpened = 0

\* The requests that have returned success.
Succeeded == {r \in Req : req[r].outcome = "Ok"}

\* The requests whose transaction the database has committed.
Committed == {r \in Req : req[r].tx = "committed"}

\* The rows of the database by request, position in the batch and table.
PersistedPlaces == {<<row.req, row.idx, row.table>> : row \in db.rows}

\* The rows that the batches of the requests rs consist of.
PlacesOf(rs) == UNION {{<<r, p[1], p[2]>> : p \in ExpectedPlaces(r)} : r \in rs}

\* C15 as stated: once all requests have returned, the rows of the database
\* are exactly the rows of the batches whose request returned success; a
\* request that failed has no row; and a batch that is not committed, or is
\* rolled back, never has a row in the database.
C15_PersistedRowsAreThoseOfSucceededBatches ==
    /\ (\A r \in Req : Arrived(r) => Done(r)) => PersistedPlaces = PlacesOf(Succeeded)
    /\ \A r \in Req : (Done(r) /\ req[r].outcome # "Ok") => RowsOf(r) = {}
    /\ \A r \in Req : req[r].tx # "committed" => RowsOf(r) = {}

\* C15, amended: in every state of every interleaving of concurrent requests
\* the rows of the database are exactly the rows of the batches whose
\* transaction is committed, with the values of their events; a request that
\* has returned success is committed; and a request that is committed and has
\* returned without success returned InternalServerError, for a commit that
\* the database had applied.
C15_PersistedRowsAreThoseOfCommittedBatches ==
    /\ PersistedPlaces = PlacesOf(Committed)
    /\ \A row \in db.rows :
         Ok(row.vals) = RowValues(Catalog[row.table], 1, req[row.req].in.events[row.idx],
                                  req[row.req].in.headers)
    /\ Succeeded \subseteq Committed
    /\ \A r \in Committed \ Succeeded :
         Done(r) => req[r].outcome = "InternalServerError"

\* Three requests of the same app, their steps interleaved: requests 1 and 2
\* are in their transactions together, each with an inserted row that is not
\* in the database, request 1 before its second event; request 3, which began
\* after request 1 had begun, has returned InternalServerError for a commit
\* that the database had applied, and its row is the only one in the database.
C15_Witness ==
    /\ req[1].pc = "inserting" /\ req[1].tx = "open"
    /\ Len(req[1].in.events) = 2 /\ req[1].i = 2 /\ Cardinality(req[1].pending) = 1
    /\ req[2].pc = "inserting" /\ req[2].tx = "open" /\ req[2].pending # {}
    /\ Done(3) /\ req[3].outcome = "InternalServerError" /\ req[3].tx = "committed"
    /\ req[1].in.app_id = req[2].in.app_id /\ req[1].in.app_id = req[3].in.app_id
    /\ db.rows = RowsOf(3) /\ Cardinality(db.rows) = Len(req[3].in.events)
    /\ Len(req[3].in.events) = 1

\* C16: with fewer pool connections than concurrent requests, under fair
\* scheduling there is a point from which on every request that has arrived
\* has returned, with the transaction it may have opened committed or rolled
\* back (so no request that arrives stays without an outcome); and a
\* request that returned without ever obtaining a connection, having passed
\* the validation, returned InternalServerError and has no row.
C16_NoDeadlockOnPoolExhaustion ==
    /\ <>[](\A r \in Req : Arrived(r) => (Done(r) /\ req[r].tx # "open"))
    /\ [](\A r \in Req :
            (Done(r) /\ RightKey(r) /\ AllAuthorized(r) /\ req[r].acquired = 0)
               => /\ req[r].outcome = "InternalServerError"
                  /\ req[r].pending = {}
                  /\ RowsOf(r) = {})

\* The pool is exhausted: run() and requests 1 and 2, whose transactions are
\* open, hold its connections while request 3 is at get().
C16_Witness ==
    /\ checkedOut = PoolSize
    /\ NumReq > PoolSize - server.conns
    /\ req[1].pc = "inserting" /\ req[1].tx = "open"
    /\ req[2].pc = "inserting" /\ req[2].tx = "open"
    /\ req[3].pc = "validated"

\* The instant that the number t of epoch seconds denotes, at offset zero: t
\* is floor + q/4, so the instant is q quarters of a second past second floor.
InstantOf(json) == DateTime(Big(json.hi, json.lo), json.q * 250000000, 0)

\* C17: json_to_sql to Timestamp of a number of epoch seconds within the
\* representable range, fractional or negative, gives the instant that the
\* number denotes, at UTC offset zero: 1700000000.5 gives 500 ms past second
\* 1700000000, and -1.5 gives 1.5 s before the epoch.
C17_NumericTimestampDenotesSameInstant ==
    (conv.pc = "json_done" /\ conv.type = "Timestamp"
        /\ conv.json.kind = "number" /\ ~OutOfRange(conv.json))
        => conv.out = Ok(ToTimestamptz(InstantOf(conv.json)))

\* Every table that an app of the schema names is in the catalog.
TablesResolve(sch) ==
    \A a \in DOMAIN sch.apps : sch.apps[a].tables \subseteq DOMAIN sch.tables

\* The insertion loop of r is at an event whose table the catalog lacks.
AtUnknownTable(r) ==
    /\ req[r].pc = "inserting"
    /\ req[r].i <= Len(req[r].in.events)
    /\ req[r].in.events[req[r].i].fields["_t"].s \notin DOMAIN schema.v.tables

\* C18: when the insertion loop comes to an event whose table, though among
\* the tables of the app, is not in the catalog, the request returns
\* InternalServerError, its transaction is rolled back and no row of the
\* batch, the rows of the earlier events included, is in the database; and
\* under a schema whose apps name only tables of the catalog the loop never
\* comes to such an event.
C18_UnknownTableIsInternalError ==
    /\ [][\A r \in Req :
            (AtUnknownTable(r) /\ req'[r] # req[r])
               => /\ req'[r].pc = "done"
                  /\ req'[r].outcome = "InternalServerError"
                  /\ req'[r].tx = "rolled_back"
                  /\ req'[r].pending = {}
                  /\ req'[r].conns = 0
                  /\ {row \in db'.rows : row.req = r} = {}]_vars
    /\ [](\A r \in Req :
            (Done(r) /\ req[r].i <= Len(req[r].in.events)
                /\ req[r].txOpened = 1
                /\ req[r].in.events[req[r].i].fields["_t"].s \notin DOMAIN schema.v.tables)
               => req[r].outcome = "InternalServerError" /\ RowsOf(r) = {})
    /\ [](TablesResolve(schema.v) => \A r \in Req : ~AtUnknownTable(r))

\* Under the schema in which app2 names t9, request 1 had inserted its first
\* event when its second one, for t9, ended it with InternalServerError.
C18_Witness ==
    /\ ~TablesResolve(schema.v)
    /\ Done(1)
    /\ req[1].in.events = <<EvT3, EvT9>>
    /\ req[1].i = 2
    /\ req[1].outcome = "InternalServerError"
    /\ req[1].tx = "rolled_back"
    /\ db.rows = {}

\* The outcomes of a request that has returned.
Outcomes == {"Ok", "BadRequest", "Forbidden", "NotFound", "InternalServerError"}

\* C19: no request panics.  A request that has passed the validation has a
\* string _t in every event, so that the unwrap of the insertion loop meets a
\* value; no request has the outcome of a panic, and a request that has
\* returned has exactly one of the outcomes success, 400, 403, 404 and 500.
C19_NoPanic ==
    \A r \in Req :
        /\ req[r].pc \in {"validated", "connected", "inserting", "committed"}
             => \A k \in DOMAIN req[r].in.events :
                    as_str(Index(req[r].in.events[k], "_t")).some
        /\ req[r].outcome # "panic"
        /\ Done(r) <=> req[r].outcome \in Outcomes
        /\ ~Done(r) => req[r].outcome = "none"

\* Request 1 has returned success for a batch whose events went through the
\* unwrap of _t and, for ts, through json_to_date_time.
C19_Witness ==
    /\ Done(1)
    /\ req[1].in.events = <<EvT2, EvT1>>
    /\ req[1].i = 3
    /\ req[1].outcome = "Ok"

====
